---------------------------- MODULE Spec2Model ----------------------------
(***************************************************************************)
(* A model of 00-live.py: one supervisor thread per radio station that     *)
(* launches overlapping ffmpeg captures inside a daily recording window,   *)
(* the capture threads that classify their artifact and write the shared   *)
(* status dictionary, and the reporter thread that prints it.              *)
(*                                                                         *)
(* Time is the local wall clock (Asia/Manila, a fixed UTC+8 offset with no *)
(* daylight saving), counted in seconds from 00:00:00 of BaseDate.  Every  *)
(* step of a thread is instantaneous; time passes only while every thread  *)
(* is blocked in time.sleep or in subprocess.run, and a sleep ends exactly *)
(* when its duration has elapsed.                                          *)
(***************************************************************************)
EXTENDS Integers, Sequences, FiniteSets, TLC

VARIABLES
    START_HOUR,      \* configuration, line 21
    END_HOUR,        \* configuration, line 22
    stations,        \* what load_stations returned: the station names, in order
    clock,           \* datetime.now(TIMEZONE), in seconds
    station_status,  \* the dictionary of line 28
    status_lock,     \* who holds the lock of line 29: "free" or "reporter"
    mainPc,          \* where main() is
    started,         \* how many station threads main() has started
    supPc,           \* where each record_station thread is
    supWake,         \* when the time.sleep of each record_station thread ends
    supGate,         \* each supervisor's most recent within_recording_window call
    supWaited,       \* whether wait_until_start slept since the supervisor's last launch
    chunks,          \* the record_chunk_ffmpeg threads ever started
    liveDir,         \* LIVE_DIR: filename -> size
    recDir,          \* REC_DIR: filename -> size
    lastWrite,       \* per station, the chunk whose status write was the latest (0: none)
    repPc,           \* where the reporting_loop thread is
    repWake,         \* when the time.sleep of the reporter ends
    repTotal,        \* print_status_report's local `total`
    repOnline,       \* print_status_report's local `online_names`
    repOffline       \* print_status_report's local `offline_names`

vars == << START_HOUR, END_HOUR, stations, clock, station_status, status_lock,
           mainPc, started, supPc, supWake, supGate, supWaited, chunks,
           liveDir, recDir, lastWrite, repPc, repWake, repTotal, repOnline,
           repOffline >>

---------------------------------------------------------------------------
(* Program constants *)

RECORD_DURATION == 900

OVERLAP_START == 840

REPORT_INTERVAL == 60

DefaultStartHour == 5

DefaultEndHour == 0

(* Bounds of the model *)

\* Chunks launched in one behaviour, over all stations.
MaxChunks == 3

\* The clock stops before this many days have passed.
MaxDays == 2

\* The runs explored, each a station list load_stations returned (names only;
\* the URL is opaque) and the wall-clock instant at which the process starts:
\* two stations started at 04:59:59, one second before the window opens, and
\* one station started at 23:59:00, one minute before it closes.
Scenarios ==
    { << << <<"D","Z">>, <<"F","M","/">> >>, 4 * 3600 + 59 * 60 + 59 >>,
      << << <<"D","Z">> >>, 23 * 3600 + 59 * 60 >> }

\* The sizes of the file ffmpeg may leave behind.
FileSizes == {0, 512000}

\* The date of day 0 of the clock.
BaseDate == <<2024, 12, 31>>

---------------------------------------------------------------------------
(* Wall-clock fields of an instant *)

SecondsPerDay == 24 * 3600

DayOf(t) == t \div SecondsPerDay

HourOf(t) == (t \div 3600) % 24

MinuteOf(t) == (t \div 60) % 60

SecondOf(t) == t % 60

IsLeap(y) == (y % 4 = 0 /\ y % 100 # 0) \/ y % 400 = 0

DaysInMonth(y, m) ==
    IF m = 2 THEN (IF IsLeap(y) THEN 29 ELSE 28)
    ELSE IF m \in {4, 6, 9, 11} THEN 30 ELSE 31

RECURSIVE AddDays(_, _)
AddDays(date, k) ==
    IF k = 0 THEN date
    ELSE LET y == date[1]
             m == date[2]
             d == date[3]
         IN  IF d < DaysInMonth(y, m) THEN AddDays(<<y, m, d + 1>>, k - 1)
             ELSE IF m < 12 THEN AddDays(<<y, m + 1, 1>>, k - 1)
             ELSE AddDays(<<y + 1, 1, 1>>, k - 1)

DateOf(t) == AddDays(BaseDate, DayOf(t))

\* strftime's zero-padded decimal fields, as digit sequences.
Pad2(n) == << (n \div 10) % 10, n % 10 >>

Pad4(n) == << (n \div 1000) % 10, (n \div 100) % 10, (n \div 10) % 10, n % 10 >>

---------------------------------------------------------------------------
(* Pure functions of the program *)

Names == { stations[i] : i \in DOMAIN stations }

\* A variant of within_recording_window that reads START_HOUR = END_HOUR as
\* the whole day.
within_recording_window_whole_day(now) ==
    LET hour == HourOf(now)
    IN  IF START_HOUR = END_HOUR THEN TRUE
        ELSE (hour >= START_HOUR) /\ (IF END_HOUR = 0 THEN hour < 24 ELSE hour < END_HOUR)

\* A variant of within_recording_window without the reading of END_HOUR = 0
\* as midnight.
within_recording_window_plain(now) ==
    LET hour == HourOf(now)
    IN  (hour >= START_HOUR) /\ (hour < END_HOUR)

\* Lines 67-69.
within_recording_window(now) ==
    LET hour == HourOf(now)
    IN  (hour >= START_HOUR) /\ (IF END_HOUR = 0 THEN hour < 24 ELSE hour < END_HOUR)

\* A variant of next_start that never moves to the following day.
next_start_today(now) == DayOf(now) * SecondsPerDay + START_HOUR * 3600

\* Lines 76-79: the instant wait_until_start sleeps until.
next_start(now) ==
    IF HourOf(now) < START_HOUR
    THEN DayOf(now) * SecondsPerDay + START_HOUR * 3600
    ELSE (DayOf(now) + 1) * SecondsPerDay + START_HOUR * 3600

ForbiddenChars == {"<", ">", ":", "\"", "/", "\\", "|", "?", "*"}

\* Line 89.
safe_name(station_name) ==
    [i \in 1..Len(station_name) |->
        IF station_name[i] \in ForbiddenChars THEN "_" ELSE station_name[i]]

\* A variant of generate_filename whose time field stops at the hour.
generate_filename_hour(station_name, now) ==
    LET date == DateOf(now)
    IN  [date |-> << Pad4(date[1]), Pad2(date[2]), Pad2(date[3]) >>,
         time |-> << Pad2(HourOf(now)) >>,
         name |-> safe_name(station_name)]

\* Lines 85-91: "[%Y-%m-%d]-[%H-%M-%S]-safe_name.mp3".
generate_filename(station_name, now) ==
    LET date == DateOf(now)
    IN  [date |-> << Pad4(date[1]), Pad2(date[2]), Pad2(date[3]) >>,
         time |-> << Pad2(HourOf(now)), Pad2(MinuteOf(now)), Pad2(SecondOf(now)) >>,
         name |-> safe_name(station_name)]

\* A variant of status_lock_free for a writer that does not take the lock.
status_lock_ignored == TRUE

\* Line 94: `with status_lock` in update_station_status goes on when no other
\* thread holds the lock.
status_lock_free == status_lock = "free"

\* A variant of update_station_status that overwrites every entry.
update_station_status_all(station_name, is_online) ==
    [k \in DOMAIN station_status \cup {station_name} |-> is_online]

\* A variant of update_station_status that never takes a station back offline.
update_station_status_sticky(station_name, is_online) ==
    [k \in DOMAIN station_status \cup {station_name} |->
        IF k # station_name THEN station_status[k]
        ELSE is_online \/ (k \in DOMAIN station_status /\ station_status[k])]

\* Lines 93-95: the dictionary after station_status[station_name] = is_online.
update_station_status(station_name, is_online) ==
    [k \in DOMAIN station_status \cup {station_name} |->
        IF k = station_name THEN is_online ELSE station_status[k]]

\* A variant of has_data that does not look at the size.
has_data_exists_only(dir, filename) == filename \in DOMAIN dir

\* Line 117: live_path.exists() and live_path.stat().st_size > 0.
has_data(dir, filename) == filename \in DOMAIN dir /\ dir[filename] > 0

Put(dir, filename, size) ==
    [f \in DOMAIN dir \cup {filename} |-> IF f = filename THEN size ELSE dir[f]]

Del(dir, filename) == [f \in DOMAIN dir \ {filename} |-> dir[f]]

\* A variant of move_source that copies: the file stays in LIVE_DIR.
move_source_kept(live, filename) == live

\* A variant of remove_file that removes nothing.
remove_file_skipped(live, filename) == live

\* Line 121, shutil.move succeeding: the file leaves LIVE_DIR ...
move_source(live, filename) == Del(live, filename)

\* ... and is in REC_DIR under the same name.
move_target(rec, live, filename) == Put(rec, filename, live[filename])

\* Lines 127-128: os.remove of an existing file.
remove_file(live, filename) ==
    IF filename \in DOMAIN live THEN Del(live, filename) ELSE live

---------------------------------------------------------------------------
(* The initial state: the module has been loaded and load_stations has
   returned; main() is about to fill station_status. *)

Sups == DOMAIN stations

NoGate == [checked |-> FALSE, at |-> 0, open |-> FALSE]

InitWith(startHour, endHour, stationList, now) ==
    /\ START_HOUR = startHour
    /\ END_HOUR = endHour
    /\ stations = stationList
    /\ clock = now
    /\ station_status = << >>
    /\ status_lock = "free"
    /\ mainPc = "init_status"
    /\ started = 0
    /\ supPc = [i \in DOMAIN stationList |-> "not_started"]
    /\ supWake = [i \in DOMAIN stationList |-> 0]
    /\ supGate = [i \in DOMAIN stationList |-> NoGate]
    /\ supWaited = [i \in DOMAIN stationList |-> FALSE]
    /\ chunks = {}
    /\ liveDir = << >>
    /\ recDir = << >>
    /\ lastWrite = [n \in {stationList[i] : i \in DOMAIN stationList} |-> 0]
    /\ repPc = "not_started"
    /\ repWake = 0
    /\ repTotal = 0
    /\ repOnline = << >>
    /\ repOffline = << >>

Init ==
    \E scenario \in Scenarios :
        InitWith(DefaultStartHour, DefaultEndHour, scenario[1], scenario[2])

---------------------------------------------------------------------------
(* main(), lines 172-193 *)

\* A variant of initial_status whose loop never runs.
initial_status_skipped == station_status

\* Lines 178-180: the dictionary after the loop over the stations.
initial_status == [n \in DOMAIN station_status \cup Names |-> FALSE]

\* Lines 173-180: every station is entered as offline, under the lock.
main_init_status ==
    /\ mainPc = "init_status"
    /\ status_lock = "free"
    /\ station_status' = initial_status
    /\ mainPc' = "start_reporter"
    /\ UNCHANGED << START_HOUR, END_HOUR, stations, clock, status_lock, started,
                    supPc, supWake, supGate, supWaited, chunks, liveDir, recDir,
                    lastWrite, repPc, repWake, repTotal, repOnline, repOffline >>

\* Lines 183-184.
main_start_reporter ==
    /\ mainPc = "start_reporter"
    /\ repPc' = "sleep"
    /\ mainPc' = "start_stations"
    /\ UNCHANGED << START_HOUR, END_HOUR, stations, clock, station_status,
                    status_lock, started, supPc, supWake, supGate, supWaited,
                    chunks, liveDir, recDir, lastWrite, repWake, repTotal,
                    repOnline, repOffline >>

\* A variant of main_start_station that joins each station's thread before it
\* starts the next one.
main_start_station_joined ==
    /\ mainPc = "start_stations"
    /\ started = 0
    /\ started' = started + 1
    /\ supPc' = [supPc EXCEPT ![started + 1] = "init"]
    /\ UNCHANGED << START_HOUR, END_HOUR, stations, clock, station_status,
                    status_lock, mainPc, supWake, supGate, supWaited, chunks,
                    liveDir, recDir, lastWrite, repPc, repWake, repTotal,
                    repOnline, repOffline >>

\* Lines 187-190: one record_station thread per entry, in list order; then
\* main sleeps forever (lines 192-193).
main_start_station ==
    /\ mainPc = "start_stations"
    /\ IF started < Len(stations)
       THEN /\ started' = started + 1
            /\ supPc' = [supPc EXCEPT ![started + 1] = "init"]
            /\ UNCHANGED mainPc
       ELSE /\ mainPc' = "idle"
            /\ UNCHANGED << started, supPc >>
    /\ UNCHANGED << START_HOUR, END_HOUR, stations, clock, station_status,
                    status_lock, supWake, supGate, supWaited, chunks, liveDir,
                    recDir, lastWrite, repPc, repWake, repTotal, repOnline,
                    repOffline >>

---------------------------------------------------------------------------
(* record_station(), lines 134-146, and wait_until_start(), lines 71-83 *)

\* Line 135.
record_station_init(i) ==
    /\ supPc[i] = "init"
    /\ status_lock_free
    /\ station_status' = update_station_status(stations[i], FALSE)
    /\ supPc' = [supPc EXCEPT ![i] = "sleep"]
    /\ supWake' = [supWake EXCEPT ![i] = clock]
    /\ UNCHANGED << START_HOUR, END_HOUR, stations, clock, status_lock, mainPc,
                    started, supGate, supWaited, chunks, liveDir, recDir,
                    lastWrite, repPc, repWake, repTotal, repOnline, repOffline >>

\* A variant of after_check that leaves the loop when the window is closed.
after_check_exit(open) == IF open THEN "launch" ELSE "exit"

\* A variant of after_check that launches whatever the check found.
after_check_ignored(open) == "launch"

\* Where record_station goes after the check of lines 137-138: on to the
\* launch, or into wait_until_start.
after_check(open) == IF open THEN "launch" ELSE "wait_sleep"

\* Lines 76-83: how long wait_until_start sleeps.
wait_seconds(now) == next_start(now) - now

\* Lines 137-139 (and 73-83 when the window is closed): the window check of a
\* scheduling tick, at the top of the loop or when the sleep of line 146 ends.
\* With the window closed the supervisor enters wait_until_start, whose first
\* check (line 74) sees the same instant, and sleeps until the next start.
record_station_check(i) ==
    /\ supPc[i] = "sleep"
    /\ clock >= supWake[i]
    /\ LET open == within_recording_window(clock)
       IN  /\ supGate' = [supGate EXCEPT ![i] =
                            [checked |-> TRUE, at |-> clock, open |-> open]]
           /\ supPc' = [supPc EXCEPT ![i] = after_check(open)]
           /\ IF open
              THEN UNCHANGED << supWake, supWaited >>
              ELSE /\ supWake' = [supWake EXCEPT ![i] = clock + wait_seconds(clock)]
                   /\ supWaited' = [supWaited EXCEPT ![i] = TRUE]
    /\ UNCHANGED << START_HOUR, END_HOUR, stations, clock, station_status,
                    status_lock, mainPc, started, chunks, liveDir, recDir,
                    lastWrite, repPc, repWake, repTotal, repOnline, repOffline >>

\* Lines 73-83: the sleep of line 83 ends and wait_until_start checks again:
\* it returns when the window is open, else sleeps until the next start.
wait_until_start_check(i) ==
    /\ supPc[i] = "wait_sleep"
    /\ clock >= supWake[i]
    /\ LET open == within_recording_window(clock)
       IN  /\ supGate' = [supGate EXCEPT ![i] =
                            [checked |-> TRUE, at |-> clock, open |-> open]]
           /\ IF open
              THEN /\ supPc' = [supPc EXCEPT ![i] = "launch"]
                   /\ UNCHANGED supWake
              ELSE /\ supWake' = [supWake EXCEPT ![i] = clock + wait_seconds(clock)]
                   /\ UNCHANGED supPc
    /\ UNCHANGED << START_HOUR, END_HOUR, stations, clock, station_status,
                    status_lock, mainPc, started, supWaited, chunks, liveDir,
                    recDir, lastWrite, repPc, repWake, repTotal, repOnline,
                    repOffline >>

ChunksOf(i) == { c \in chunks : c.sup = i }

\* Lines 142-144: the thread of a new capture.
new_chunk(i) ==
    [sup |-> i,
     station |-> stations[i],
     n |-> Cardinality(ChunksOf(i)) + 1,
     filename |-> generate_filename(stations[i], clock),
     launchedAt |-> clock,
     gate |-> supGate[i],
     waited |-> supWaited[i],
     pc |-> "ffmpeg",
     seen |-> "not_yet",
     seenSize |-> 0,
     wrote |-> "none",
     moved |-> "none"]

\* A variant of next_tick that sleeps for the whole chunk.
next_tick_whole_chunk(now) == now + RECORD_DURATION

\* When the sleep of line 146 ends.
next_tick(now) == now + OVERLAP_START

\* A variant of record_station_launch that joins the earlier recorder threads
\* of the station before it starts the next one.
record_station_launch_joined(i) ==
    /\ supPc[i] = "launch"
    /\ \A c \in ChunksOf(i) : c.pc = "done"
    /\ Cardinality(chunks) < MaxChunks
    /\ chunks' = chunks \cup {new_chunk(i)}
    /\ supPc' = [supPc EXCEPT ![i] = "sleep"]
    /\ supWake' = [supWake EXCEPT ![i] = next_tick(clock)]
    /\ supWaited' = [supWaited EXCEPT ![i] = FALSE]
    /\ UNCHANGED << START_HOUR, END_HOUR, stations, clock, station_status,
                    status_lock, mainPc, started, supGate, liveDir, recDir,
                    lastWrite, repPc, repWake, repTotal, repOnline, repOffline >>

\* Lines 142-146: name the chunk, start its thread without joining it, sleep.
record_station_launch(i) ==
    /\ supPc[i] = "launch"
    /\ Cardinality(chunks) < MaxChunks
    /\ chunks' = chunks \cup {new_chunk(i)}
    /\ supPc' = [supPc EXCEPT ![i] = "sleep"]
    /\ supWake' = [supWake EXCEPT ![i] = next_tick(clock)]
    /\ supWaited' = [supWaited EXCEPT ![i] = FALSE]
    /\ UNCHANGED << START_HOUR, END_HOUR, stations, clock, station_status,
                    status_lock, mainPc, started, supGate, liveDir, recDir,
                    lastWrite, repPc, repWake, repTotal, repOnline, repOffline >>

---------------------------------------------------------------------------
(* record_chunk_ffmpeg(), lines 97-128: one thread per chunk *)

Replace(c, d) == (chunks \ {c}) \cup {d}

\* What subprocess.run may leave at live_path: nothing, or a file of some size.
Artifacts == { << >> } \cup { << size >> : size \in FileSizes }

\* Line 115 returns, at any time after the launch.
ffmpeg_returns(c, artifact) ==
    /\ c.pc = "ffmpeg"
    /\ liveDir' = IF artifact = << >> THEN liveDir
                  ELSE Put(liveDir, c.filename, artifact[1])
    /\ chunks' = Replace(c, [c EXCEPT !.pc = "returned"])
    /\ UNCHANGED << START_HOUR, END_HOUR, stations, clock, station_status,
                    status_lock, mainPc, started, supPc, supWake, supGate,
                    supWaited, recDir, lastWrite, repPc, repWake, repTotal,
                    repOnline, repOffline >>

\* A variant of status_written for a capture that reports the station online
\* only once the file is in REC_DIR.
status_written_after_move(is_online, move_ok) == is_online /\ move_ok

\* Lines 119 and 126: the status a capture writes.  The write of line 119
\* comes before the move of line 121 and does not depend on its result.
status_written(is_online, move_ok) == is_online

\* Lines 117-128: the artifact is classified and the outcome written to
\* station_status (under the lock); then a non-empty artifact is moved to
\* REC_DIR (shutil.move succeeds, or raises and the exception is printed)
\* and an empty one is removed.
record_chunk_finish(c, move_ok) ==
    /\ c.pc = "returned"
    /\ status_lock_free
    /\ LET exists == c.filename \in DOMAIN liveDir
           is_online == has_data(liveDir, c.filename)
           moves == is_online /\ move_ok
       IN  /\ station_status' = update_station_status(c.station,
                                     status_written(is_online, move_ok))
           /\ recDir' = IF moves THEN move_target(recDir, liveDir, c.filename)
                        ELSE recDir
           /\ liveDir' = IF moves THEN move_source(liveDir, c.filename)
                         ELSE IF is_online THEN liveDir
                         ELSE remove_file(liveDir, c.filename)
           /\ chunks' = Replace(c, [c EXCEPT
                   !.pc = "done",
                   !.seen = IF exists THEN "file" ELSE "absent",
                   !.seenSize = IF exists THEN liveDir[c.filename] ELSE 0,
                   !.wrote = IF is_online THEN "online" ELSE "offline",
                   !.moved = IF ~is_online THEN "none"
                             ELSE IF move_ok THEN "ok" ELSE "failed"])
    /\ lastWrite' = [lastWrite EXCEPT ![c.station] = c.n]
    /\ UNCHANGED << START_HOUR, END_HOUR, stations, clock, status_lock, mainPc,
                    started, supPc, supWake, supGate, supWaited, repPc,
                    repWake, repTotal, repOnline, repOffline >>

---------------------------------------------------------------------------
(* reporting_loop() and print_status_report(), lines 148-170 *)

\* The keys of station_status in iteration (insertion) order.
Keys == SelectSeq(stations, LAMBDA n : n \in DOMAIN station_status)

\* Lines 149-151, at the start of the thread or when the sleep of line 170
\* ends: take the lock, count the entries, list the online names.
print_status_report_online ==
    /\ repPc = "sleep"
    /\ clock >= repWake
    /\ status_lock = "free"
    /\ status_lock' = "reporter"
    /\ repTotal' = Cardinality(DOMAIN station_status)
    /\ repOnline' = SelectSeq(Keys, LAMBDA n : station_status[n])
    /\ repPc' = "offline_names"
    /\ UNCHANGED << START_HOUR, END_HOUR, stations, clock, station_status,
                    mainPc, started, supPc, supWake, supGate, supWaited,
                    chunks, liveDir, recDir, lastWrite, repWake, repOffline >>

\* Line 152.
print_status_report_offline ==
    /\ repPc = "offline_names"
    /\ repOffline' = SelectSeq(Keys, LAMBDA n : ~station_status[n])
    /\ repPc' = "print"
    /\ UNCHANGED << START_HOUR, END_HOUR, stations, clock, station_status,
                    status_lock, mainPc, started, supPc, supWake, supGate,
                    supWaited, chunks, liveDir, recDir, lastWrite, repWake,
                    repTotal, repOnline >>

\* Lines 154-165 and 170: the block is printed from the locals, the lock is
\* released, the locals go out of scope, and the reporter sleeps.
print_status_report_print ==
    /\ repPc = "print"
    /\ status_lock' = "free"
    /\ repTotal' = 0
    /\ repOnline' = << >>
    /\ repOffline' = << >>
    /\ repPc' = "sleep"
    /\ repWake' = clock + REPORT_INTERVAL
    /\ UNCHANGED << START_HOUR, END_HOUR, stations, clock, station_status,
                    mainPc, started, supPc, supWake, supGate, supWaited,
                    chunks, liveDir, recDir, lastWrite >>

---------------------------------------------------------------------------
(* The passage of time *)

\* Every thread is blocked: main in its final sleep, the supervisors and the
\* reporter in time.sleep, every capture in subprocess.run or finished.
AllBlocked ==
    /\ mainPc = "idle"
    /\ \A i \in Sups : supPc[i] \in {"sleep", "wait_sleep"} /\ supWake[i] > clock
    /\ repPc = "sleep" /\ repWake > clock
    /\ \A c \in chunks : c.pc \in {"ffmpeg", "done"}

Timers == { supWake[i] : i \in Sups } \cup { repWake }

NextTimer == CHOOSE t \in Timers : \A u \in Timers : t <= u

\* A variant of Tick in which the captures still running are cancelled when
\* the clock reaches an instant outside the recording window.
TickCancelling ==
    /\ AllBlocked
    /\ Cardinality(chunks) < MaxChunks
    /\ NextTimer < MaxDays * SecondsPerDay
    /\ clock' = NextTimer
    /\ chunks' = IF within_recording_window(NextTimer) THEN chunks
                 ELSE { c \in chunks : c.pc = "done" }
    /\ UNCHANGED << START_HOUR, END_HOUR, stations, station_status, status_lock,
                    mainPc, started, supPc, supWake, supGate, supWaited,
                    liveDir, recDir, lastWrite, repPc, repWake, repTotal,
                    repOnline, repOffline >>

\* The clock advances to the next instant at which a sleep ends.  (The model
\* stops the clock once MaxChunks chunks are launched or MaxDays have passed.)
Tick ==
    /\ AllBlocked
    /\ Cardinality(chunks) < MaxChunks
    /\ NextTimer < MaxDays * SecondsPerDay
    /\ clock' = NextTimer
    /\ UNCHANGED << START_HOUR, END_HOUR, stations, station_status, status_lock,
                    mainPc, started, supPc, supWake, supGate, supWaited,
                    chunks, liveDir, recDir, lastWrite, repPc, repWake,
                    repTotal, repOnline, repOffline >>

---------------------------------------------------------------------------

Next ==
    \/ main_init_status
    \/ main_start_reporter
    \/ main_start_station
    \/ \E i \in Sups : record_station_init(i)
    \/ \E i \in Sups : record_station_check(i)
    \/ \E i \in Sups : wait_until_start_check(i)
    \/ \E i \in Sups : record_station_launch(i)
    \/ \E c \in chunks, artifact \in Artifacts : ffmpeg_returns(c, artifact)
    \/ \E c \in chunks, move_ok \in BOOLEAN : record_chunk_finish(c, move_ok)
    \/ print_status_report_online
    \/ print_status_report_offline
    \/ print_status_report_print
    \/ Tick

Spec == Init /\ [][Next]_vars

---------------------------------------------------------------------------
(* The window check alone, for every configuration and hour: main() and
   each supervisor run up to the first check of lines 137-138. *)

Hours == 0..23

\* The first and the last second of every hour of day 0.
HourInstants == { h * 3600 + s : h \in Hours, s \in {0, 3599} }

InitGate ==
    \E startHour \in Hours, endHour \in Hours, now \in HourInstants :
        InitWith(startHour, endHour, << <<"D","Z">> >>, now)

NextGate ==
    \/ main_init_status
    \/ main_start_reporter
    \/ main_start_station
    \/ \E i \in Sups : record_station_init(i)
    \/ \E i \in Sups : record_station_check(i)

SpecGate == InitGate /\ [][NextGate]_vars

---------------------------------------------------------------------------
(* Two stations whose names differ only in characters that line 89 replaces,
   started together at 04:59:59. *)

CollidingStations == << <<"F","M","/">>, <<"F","M",":">> >>

InitCollide ==
    InitWith(DefaultStartHour, DefaultEndHour, CollidingStations,
             4 * 3600 + 59 * 60 + 59)

SpecCollide == InitCollide /\ [][Next]_vars

---------------------------------------------------------------------------
(* The program with an ffmpeg that honours `-t duration` (line 109): every
   subprocess.run of line 115 returns at most RECORD_DURATION after the
   launch of its chunk. *)

Running == { c \in chunks : c.pc = "ffmpeg" }

\* The instants by which the running captures must have returned.
Deadlines == { c.launchedAt + RECORD_DURATION : c \in Running }

NextInstant ==
    CHOOSE t \in Timers \cup Deadlines : \A u \in Timers \cup Deadlines : t <= u

\* A variant of TickBounded for an ffmpeg that may run for any time.
TickUnbounded ==
    /\ AllBlocked
    /\ Cardinality(chunks) < MaxChunks
    /\ NextTimer < MaxDays * SecondsPerDay
    /\ clock' = NextTimer
    /\ UNCHANGED << START_HOUR, END_HOUR, stations, station_status, status_lock,
                    mainPc, started, supPc, supWake, supGate, supWaited,
                    chunks, liveDir, recDir, lastWrite, repPc, repWake,
                    repTotal, repOnline, repOffline >>

\* The clock advances to the next instant at which a sleep ends or a capture
\* is due, and never past the instant at which a running capture is due.
TickBounded ==
    /\ AllBlocked
    /\ \A c \in Running : clock < c.launchedAt + RECORD_DURATION
    /\ Cardinality(chunks) < MaxChunks
    /\ NextInstant < MaxDays * SecondsPerDay
    /\ clock' = NextInstant
    /\ UNCHANGED << START_HOUR, END_HOUR, stations, station_status, status_lock,
                    mainPc, started, supPc, supWake, supGate, supWaited,
                    chunks, liveDir, recDir, lastWrite, repPc, repWake,
                    repTotal, repOnline, repOffline >>

NextBounded ==
    \/ main_init_status
    \/ main_start_reporter
    \/ main_start_station
    \/ \E i \in Sups : record_station_init(i)
    \/ \E i \in Sups : record_station_check(i)
    \/ \E i \in Sups : wait_until_start_check(i)
    \/ \E i \in Sups : record_station_launch(i)
    \/ \E c \in chunks, artifact \in Artifacts : ffmpeg_returns(c, artifact)
    \/ \E c \in chunks, move_ok \in BOOLEAN : record_chunk_finish(c, move_ok)
    \/ print_status_report_online
    \/ print_status_report_offline
    \/ print_status_report_print
    \/ TickBounded

\* One station started at 04:59:59, so that its chunks follow one another
\* OVERLAP_START apart.
InitBounded ==
    InitWith(DefaultStartHour, DefaultEndHour, << <<"D","Z">> >>,
             4 * 3600 + 59 * 60 + 59)

SpecBounded == InitBounded /\ [][NextBounded]_vars

---------------------------------------------------------------------------
(* The program running for ever, with the same ffmpeg.  What the program
   never reads again is forgotten when the clock advances: the recorder
   threads that have ended, the files they left, the archive.  In the night,
   when no capture is left and every supervisor waits for the window, the
   clock and the pending wake-ups are counted from the last midnight again,
   since the program reads the clock for the time of day only. *)

Unfinished == { c \in chunks : c.pc # "done" }

\* Whole days that can be dropped from every instant of the state.
DayShift(t) ==
    IF /\ Unfinished = {}
       /\ \A i \in Sups : /\ supPc[i] = "wait_sleep"
                          /\ supGate[i].at >= SecondsPerDay
                          /\ supWake[i] >= SecondsPerDay
       /\ repWake >= SecondsPerDay
       /\ t >= SecondsPerDay
    THEN SecondsPerDay
    ELSE 0

Restrict(dir, names) == [ f \in DOMAIN dir \cap names |-> dir[f] ]

TickLive ==
    /\ AllBlocked
    /\ \A c \in Running : clock < c.launchedAt + RECORD_DURATION
    /\ LET t == NextInstant
           shift == DayShift(t)
       IN  /\ clock' = t - shift
           /\ supWake' = [i \in Sups |-> supWake[i] - shift]
           /\ supGate' = [i \in Sups |->
                            [supGate[i] EXCEPT !.at = supGate[i].at - shift]]
           /\ repWake' = repWake - shift
    /\ chunks' = Unfinished
    /\ liveDir' = Restrict(liveDir, { c.filename : c \in Unfinished })
    /\ recDir' = << >>
    /\ UNCHANGED << START_HOUR, END_HOUR, stations, station_status, status_lock,
                    mainPc, started, supPc, supWaited, lastWrite, repPc,
                    repTotal, repOnline, repOffline >>

NextLive ==
    \/ main_init_status
    \/ main_start_reporter
    \/ main_start_station
    \/ \E i \in Sups : record_station_init(i)
    \/ \E i \in Sups : record_station_check(i)
    \/ \E i \in Sups : wait_until_start_check(i)
    \/ \E i \in Sups : record_station_launch(i)
    \/ \E c \in chunks, artifact \in Artifacts : ffmpeg_returns(c, artifact)
    \/ \E c \in chunks, move_ok \in BOOLEAN : record_chunk_finish(c, move_ok)
    \/ print_status_report_online
    \/ print_status_report_offline
    \/ print_status_report_print
    \/ TickLive

InitLive ==
    InitWith(DefaultStartHour, DefaultEndHour, << <<"D","Z">> >>,
             4 * 3600 + 59 * 60 + 59)

\* Every thread that can run does run, and time passes when all are blocked.
SpecLive == InitLive /\ [][NextLive]_vars /\ WF_vars(NextLive)

---------------------------------------------------------------------------
(* The program configured with START_HOUR = END_HOUR (lines 21-22 edited). *)

DegenerateHours == {0, 5, 23}

InitDegenerate ==
    \E hour \in DegenerateHours, scenario \in Scenarios :
        InitWith(hour, hour, scenario[1], scenario[2])

SpecDegenerate == InitDegenerate /\ [][Next]_vars

---------------------------------------------------------------------------
(* Claims *)

\* The hours of the configured window [startHour, endHour), endHour 0
\* standing for 24.
WindowHours ==
    IF END_HOUR = 0 THEN { h \in Hours : START_HOUR <= h }
    ELSE { h \in Hours : START_HOUR <= h /\ h < END_HOUR }

\* C1: for every configured (startHour, endHour) and every hour h in 0..23,
\* within_recording_window at hour h is true exactly when h is in
\* [startHour, 24) if endHour = 0 and in [startHour, endHour) otherwise.
C1_WindowCorrect ==
    \A i \in Sups :
        supGate[i].checked =>
            (supGate[i].open <=> HourOf(supGate[i].at) \in WindowHours)

\* The window is found open in the last second of hour 23 with endHour = 0.
C1_Witness ==
    \E i \in Sups :
        /\ supGate[i].checked /\ supGate[i].open
        /\ END_HOUR = 0 /\ START_HOUR = 5
        /\ HourOf(supGate[i].at) = 23 /\ SecondOf(supGate[i].at) = 59

ThreadsStarted ==
    repPc # "not_started" \/ \E i \in Sups : supPc[i] # "not_started"

\* C2: from the moment the reporter or the first supervisor starts, the keys
\* of station_status are exactly the known station names: every station has
\* its entry before any thread runs, none is ever removed and no other key is
\* ever added.
C2_BoardKeys == ThreadsStarted => DOMAIN station_status = Names

\* Captures of both stations have written their outcome.
C2_Witness ==
    /\ DOMAIN station_status = Names
    /\ \A n \in Names : \E c \in chunks : c.station = n /\ c.pc = "done"
    /\ Cardinality(Names) = 2

\* A step leaves the entries of all stations but `name` as they were.
OthersUnchanged(name) ==
    \A other \in DOMAIN station_status \ {name} :
        /\ other \in DOMAIN station_status'
        /\ station_status'[other] = station_status[other]

\* C3: a status update for station A (by its supervisor or by one of its
\* captures) leaves the entry of every other station B unchanged, in every
\* interleaving of supervisors, captures and the reporter.
C3_StatusIsolation ==
    [][ /\ \A i \in Sups :
              record_station_init(i) => OthersUnchanged(stations[i])
        /\ \A c \in chunks, move_ok \in BOOLEAN :
              record_chunk_finish(c, move_ok) => OthersUnchanged(c.station)
      ]_vars

\* One station is online and the other offline, each by a capture's write.
C3_Witness ==
    \E c1 \in chunks, c2 \in chunks :
        /\ c1.station # c2.station
        /\ c1.wrote = "online" /\ station_status[c1.station]
        /\ c2.wrote = "offline" /\ ~station_status[c2.station]

\* C4: a supervisor launches a chunk only when the check that immediately
\* precedes the launch found the window open; a check that finds it closed
\* launches nothing and leaves the supervisor waiting, and the supervisor
\* launches again only after a re-check found the window open.
C4_LaunchOnlyWhenOpen ==
    /\ \A c \in chunks :
          /\ c.gate.checked /\ c.gate.open
          /\ c.gate.at = c.launchedAt
          /\ HourOf(c.gate.at) \in WindowHours
    /\ \A i \in Sups :
          /\ supPc[i] = "launch" =>
                supGate[i].open /\ HourOf(supGate[i].at) \in WindowHours
          /\ supPc[i] = "wait_sleep" =>
                /\ supGate[i].checked /\ ~supGate[i].open
                /\ HourOf(supGate[i].at) \notin WindowHours
          /\ supGate[i].checked /\ ~supGate[i].open => supPc[i] = "wait_sleep"

\* A chunk was launched after its supervisor had waited for the window, while
\* an earlier chunk of the station exists.
C4_Witness ==
    \E c \in chunks : c.waited /\ c.n > 1 /\ c.gate.open

\* The interval in which a capture launched at `launch` is active when it
\* runs for exactly RECORD_DURATION, and the length two of them share.
ActiveEnd(launch) == launch + RECORD_DURATION

Max(a, b) == IF a >= b THEN a ELSE b

Min(a, b) == IF a <= b THEN a ELSE b

Overlap(c1, c2) ==
    LET from == Max(c1.launchedAt, c2.launchedAt)
        to == Min(ActiveEnd(c1.launchedAt), ActiveEnd(c2.launchedAt))
    IN  IF to > from THEN to - from ELSE 0

Consecutive(c1, c2) == c1.sup = c2.sup /\ c2.n = c1.n + 1

\* C5 as stated: with every capture active for exactly RECORD_DURATION from
\* its launch, any two consecutively scheduled chunks of one station overlap
\* for exactly RECORD_DURATION - OVERLAP_START seconds.
C5_Original ==
    \A c1 \in chunks, c2 \in chunks :
        Consecutive(c1, c2) => Overlap(c1, c2) = RECORD_DURATION - OVERLAP_START

\* C5, amended: with every capture active for exactly RECORD_DURATION from
\* its launch, two consecutively scheduled chunks of one station overlap for
\* exactly RECORD_DURATION - OVERLAP_START seconds when the supervisor did not
\* wait for the window between the two launches; when it did, the later chunk
\* starts after the earlier one has ended and they do not overlap at all.
C5_Overlap ==
    /\ OVERLAP_START < RECORD_DURATION
    /\ \A c1 \in chunks, c2 \in chunks :
          Consecutive(c1, c2) =>
              Overlap(c1, c2) =
                  IF c2.waited THEN 0 ELSE RECORD_DURATION - OVERLAP_START

\* Two consecutive chunks were launched without a wait for the window
\* between them, 60 seconds of overlap.
C5_Witness ==
    \E c1 \in chunks, c2 \in chunks :
        /\ Consecutive(c1, c2) /\ ~c2.waited
        /\ Overlap(c1, c2) = 60

\* The captures of `name` that have completed: ffmpeg has returned and the
\* capture has written its outcome.
DoneOf(name) == { c \in chunks : c.station = name /\ c.wrote # "none" }

\* The capture of `name` whose status write was the latest.
LastWriter(name) ==
    CHOOSE c \in chunks : c.station = name /\ c.n = lastWrite[name]

\* C6: a station's entry is offline while no capture of the station has
\* completed, and otherwise is the outcome of the capture of that station
\* that wrote last, whichever chunk was launched first.
C6_LastWriterWins ==
    \A name \in DOMAIN station_status :
        IF DoneOf(name) = {}
        THEN ~station_status[name] /\ lastWrite[name] = 0
        ELSE /\ LastWriter(name) \in DoneOf(name)
             /\ station_status[name] = (LastWriter(name).wrote = "online")

\* An earlier-launched chunk completed after a later-launched one with the
\* other outcome, and its outcome is the one displayed.
C6_Witness ==
    \E c1 \in chunks, c2 \in chunks :
        /\ c1.station = c2.station /\ c1.n < c2.n
        /\ c1.pc = "done" /\ c2.pc = "done"
        /\ lastWrite[c1.station] = c1.n
        /\ c1.wrote = "offline" /\ c2.wrote = "online"
        /\ ~station_status[c1.station]

\* What a capture found at live_path.
ArtifactState(c) == << c.seen, c.seenSize >>

\* C7: the outcome a capture writes is a function of the artifact it finds
\* when ffmpeg has returned: online exactly when the file exists with size
\* > 0, offline exactly when it is absent or empty, whatever the station,
\* the number of the chunk and the status before.
C7_Classification ==
    /\ \A c \in chunks :
          c.pc = "done" =>
              /\ c.wrote = "online" <=> (c.seen = "file" /\ c.seenSize > 0)
              /\ c.wrote = "offline" <=> (c.seen = "absent" \/ c.seenSize = 0)
    /\ \A c1 \in chunks, c2 \in chunks :
          c1.pc = "done" /\ c2.pc = "done" /\ ArtifactState(c1) = ArtifactState(c2)
              => c1.wrote = c2.wrote

\* The same empty artifact was classified offline for two stations, for a
\* first and for a later chunk, one with the station online before.
C7_Witness ==
    \E c1 \in chunks, c2 \in chunks, c3 \in chunks :
        /\ c1.station # c2.station /\ c2.station = c3.station
        /\ c1.n = 1 /\ c2.n = 2 /\ c3.n = 1
        /\ c1.pc = "done" /\ c2.pc = "done" /\ c3.pc = "done"
        /\ c3.wrote = "online" /\ lastWrite[c2.station] = 2
        /\ ArtifactState(c1) = << "file", 0 >>
        /\ ArtifactState(c2) = << "file", 0 >>
        /\ c1.wrote = "offline" /\ c2.wrote = "offline"

\* C8: when ffmpeg leaves a non-empty artifact and the move succeeds, then
\* once the capture has completed it has set the station online, the file is
\* no longer in LIVE_DIR and a file of the same name is in REC_DIR.
C8_OnlineHandoff ==
    \A c \in chunks :
        c.pc = "done" /\ c.seen = "file" /\ c.seenSize > 0 /\ c.moved = "ok" =>
            /\ c.wrote = "online"
            /\ c.filename \notin DOMAIN liveDir
            /\ c.filename \in DOMAIN recDir
            /\ recDir[c.filename] = c.seenSize

\* A capture has handed a 512000-byte file over.
C8_Witness ==
    \E c \in chunks :
        /\ c.pc = "done" /\ c.seen = "file" /\ c.seenSize = 512000
        /\ c.moved = "ok" /\ c.filename \in DOMAIN recDir

\* C9: when ffmpeg leaves an empty artifact or none, then once the capture
\* has completed it has set the station offline, no file of that name is in
\* LIVE_DIR, and none was added to REC_DIR.
C9_OfflineCleanup ==
    \A c \in chunks :
        c.pc = "done" /\ (c.seen = "absent" \/ c.seenSize = 0) =>
            /\ c.wrote = "offline"
            /\ c.moved = "none"
            /\ c.filename \notin DOMAIN liveDir
            /\ c.filename \notin DOMAIN recDir

\* A capture found a zero-length file and has completed.
C9_Witness ==
    \E c \in chunks :
        /\ c.pc = "done" /\ c.seen = "file" /\ c.seenSize = 0
        /\ c.wrote = "offline" /\ ~station_status[c.station]

Distance(a, b) == IF a >= b THEN a - b ELSE b - a

\* C10: any two chunks launched by one station's supervisor were launched at
\* least OVERLAP_START (>= 1 second) apart and have different filenames, so
\* no two captures of one station, in flight or completed, share a path.
C10_FilenamesDiffer ==
    /\ OVERLAP_START >= 1
    /\ \A c1 \in chunks, c2 \in chunks :
          c1.sup = c2.sup /\ c1.n # c2.n =>
              /\ Distance(c1.launchedAt, c2.launchedAt) >= OVERLAP_START
              /\ c1.filename # c2.filename

\* Two captures of one station are in flight together, and a third chunk of
\* that station was launched on the day before.
C10_Witness ==
    \E c1 \in chunks, c2 \in chunks, c3 \in chunks :
        /\ c1.sup = c2.sup /\ c2.sup = c3.sup
        /\ c1.n = 1 /\ c2.n = 2 /\ c3.n = 3
        /\ c2.pc = "ffmpeg" /\ c3.pc = "ffmpeg"
        /\ c1.filename.date # c2.filename.date
        /\ c2.filename.date = c3.filename.date

\* C11: captures of two stations with different names never use the same
\* output filename, whatever the two names and the launch times, launches in
\* the same second included.
C11_StationsNeverCollide ==
    \A c1 \in chunks, c2 \in chunks :
        c1.station # c2.station => c1.filename # c2.filename

Range(seq) == { seq[k] : k \in DOMAIN seq }

Occurrences(seq, x) == Cardinality({ k \in DOMAIN seq : seq[k] = x })

\* C12: every report is computed from one state of station_status, with no
\* status write between its reads: each known station is in exactly one of
\* the online and offline lists, according to its status at that instant,
\* and online count + offline count = total = the number of known stations.
C12_ReportSnapshot ==
    /\ repPc \in {"offline_names", "print"} =>
          /\ status_lock = "reporter"
          /\ repTotal = Cardinality(Names)
          /\ Range(repOnline) = { n \in Names : station_status[n] }
    /\ repPc = "print" =>
          /\ Range(repOffline) = { n \in Names : ~station_status[n] }
          /\ \A n \in Names :
                Occurrences(repOnline, n) + Occurrences(repOffline, n) = 1
          /\ Len(repOnline) + Len(repOffline) = repTotal

\* A report listing one station online and one offline is about to be
\* printed while a capture that has returned waits for the lock.
C12_Witness ==
    /\ repPc = "print"
    /\ Len(repOnline) = 1 /\ Len(repOffline) = 1 /\ repTotal = 2
    /\ \E c \in chunks : c.pc = "returned"

\* C13: when the window is closed at time now, the instant the supervisor
\* waits for is startHour:00:00 of the same day if now.hour < startHour, and
\* startHour:00:00 of the following day otherwise; with startHour = 5 and
\* endHour = 0 the window is closed at 04:59:59 with today 05:00:00 as the
\* target, and open at 05:00:00.
C13_WaitTarget ==
    \A i \in Sups :
        /\ supPc[i] = "wait_sleep" =>
              LET now == supGate[i].at
                  target == supWake[i]
              IN  /\ ~supGate[i].open
                  /\ HourOf(target) = START_HOUR
                  /\ MinuteOf(target) = 0
                  /\ SecondOf(target) = 0
                  /\ DayOf(target) = IF HourOf(now) < START_HOUR
                                     THEN DayOf(now)
                                     ELSE DayOf(now) + 1
        /\ (supGate[i].checked /\ START_HOUR = 5 /\ END_HOUR = 0) =>
              /\ supGate[i].at = 4 * 3600 + 59 * 60 + 59 =>
                    /\ ~supGate[i].open
                    /\ supPc[i] = "wait_sleep"
                    /\ supWake[i] = 5 * 3600
              /\ supGate[i].at = 5 * 3600 => supGate[i].open

\* With startHour = 10 and endHour = 12 a supervisor checking at 12:59:59
\* waits for 10:00:00 of the following day.
C13_Witness ==
    \E i \in Sups :
        /\ START_HOUR = 10 /\ END_HOUR = 12
        /\ supPc[i] = "wait_sleep"
        /\ supGate[i].at = 12 * 3600 + 3599
        /\ supWake[i] = SecondsPerDay + 10 * 3600

InFlight(i) == { c \in ChunksOf(i) : c.pc = "ffmpeg" }

\* C14: a capture that never returns does not block its supervisor: a
\* supervisor that found the window open can launch, a supervisor whose sleep
\* has ended can check the window, the clock never passes the end of a
\* supervisor's sleep, and a chunk launched without a wait for the window is
\* launched exactly OVERLAP_START after the previous launch of its station,
\* whatever the number of captures of that station still in flight.
C14_FireAndForget ==
    \A i \in Sups :
        /\ (supPc[i] = "launch" /\ Cardinality(chunks) < MaxChunks) =>
              ENABLED record_station_launch(i)
        /\ supPc[i] = "sleep" => clock <= supWake[i]
        /\ (supPc[i] = "sleep" /\ clock = supWake[i]) =>
              ENABLED record_station_check(i)
        /\ \A c1 \in ChunksOf(i), c2 \in ChunksOf(i) :
              (c2.n = c1.n + 1 /\ ~c2.waited) =>
                  c2.launchedAt = c1.launchedAt + OVERLAP_START

\* A third chunk is launched OVERLAP_START after the second while the first
\* two captures of the station, one of them hours old, are still in flight.
C14_Witness ==
    \E i \in Sups : \E c1 \in InFlight(i), c2 \in InFlight(i), c3 \in InFlight(i) :
        /\ c1.n = 1 /\ c2.n = 2 /\ c3.n = 3
        /\ c2.launchedAt > c1.launchedAt + RECORD_DURATION
        /\ c3.launchedAt = c2.launchedAt + OVERLAP_START

\* C15: no station's supervisor and no capture can prevent another station's
\* supervisor or the reporter from making progress.  main starts every
\* station's thread whatever the earlier ones do; the lock is held across
\* steps by the reporter only, whose own steps are then enabled; and in every
\* state the next step of each supervisor and of the reporter is enabled as
\* soon as its own sleep has ended, whatever the other supervisors and the
\* captures are doing.
C15_Isolation ==
    /\ mainPc = "start_stations" => ENABLED main_start_station
    /\ status_lock \in {"free", "reporter"}
    /\ status_lock = "reporter" <=> repPc \in {"offline_names", "print"}
    /\ repPc = "offline_names" => ENABLED print_status_report_offline
    /\ repPc = "print" => ENABLED print_status_report_print
    /\ (repPc = "sleep" /\ clock >= repWake) => ENABLED print_status_report_online
    /\ \A i \in Sups :
          /\ (supPc[i] = "init" /\ status_lock = "free") =>
                ENABLED record_station_init(i)
          /\ supPc[i] \in {"sleep", "wait_sleep"} => clock <= supWake[i]
          /\ (supPc[i] = "sleep" /\ clock = supWake[i]) =>
                ENABLED record_station_check(i)
          /\ (supPc[i] = "wait_sleep" /\ clock = supWake[i]) =>
                ENABLED wait_until_start_check(i)
          /\ (supPc[i] = "launch" /\ Cardinality(chunks) < MaxChunks) =>
                ENABLED record_station_launch(i)

\* One station's supervisor sleeps between ticks with its capture blocked in
\* ffmpeg while another station's supervisor is about to launch.
C15_Witness ==
    \E i \in Sups, j \in Sups :
        /\ i # j
        /\ supPc[i] = "sleep" /\ clock < supWake[i]
        /\ InFlight(i) # {}
        /\ supPc[j] = "launch"
        /\ ENABLED record_station_launch(j)

\* The positions of a supervisor: not yet started by main, then scheduling
\* (first status write, window check, launch, sleep between ticks) or waiting
\* for the window.
SupervisorPositions == {"not_started", "init", "sleep", "launch", "wait_sleep"}

JustLaunched(i) == \E c \in ChunksOf(i) : c.launchedAt = clock /\ c.pc = "ffmpeg"

\* C16: a supervisor has no terminal state: in every reachable state it is
\* scheduling or waiting for the window; once it has found the window open
\* it can launch, whatever the outcomes of the earlier captures; and when
\* every runnable thread runs and the clock keeps advancing, chunk launches
\* happen again and again, for ever, for every station.
C16_NoTerminalState ==
    /\ [](\A i \in Sups : supPc[i] \in SupervisorPositions)
    /\ [](\A i \in Sups : supPc[i] = "launch" => ENABLED record_station_launch(i))
    /\ []<><<\E i \in Sups : record_station_launch(i)>>_vars
    /\ []<>(\A i \in Sups : JustLaunched(i))

\* The first chunk of a later day has just been launched after a wait for
\* the window, while the status still shows the Online outcome of a capture
\* of the day before, and the supervisor sleeps until the next tick.
C16_Witness ==
    \E c \in chunks :
        /\ chunks = {c}
        /\ c.pc = "ffmpeg" /\ c.waited
        /\ clock = c.launchedAt
        /\ supPc[c.sup] = "sleep"
        /\ supWake[c.sup] = c.launchedAt + OVERLAP_START
        /\ station_status[c.station]

\* C17: when the artifact is non-empty and the move to REC_DIR fails, the
\* capture has written Online, which stays the station's status as long as no
\* later write replaces it; the file is left in LIVE_DIR and is not in
\* REC_DIR; the capture has ended and no step of it is enabled again, so the
\* move is not retried; and the supervisor, the reporter and main are all
\* still in their loops.
C17_MoveFailure ==
    \A c \in chunks :
        c.moved = "failed" =>
            /\ c.seen = "file" /\ c.seenSize > 0
            /\ c.wrote = "online"
            /\ lastWrite[c.station] = c.n => station_status[c.station]
            /\ c.filename \in DOMAIN liveDir
            /\ c.filename \notin DOMAIN recDir
            /\ c.pc = "done"
            /\ \A move_ok \in BOOLEAN : ~ENABLED record_chunk_finish(c, move_ok)
            /\ \A artifact \in Artifacts : ~ENABLED ffmpeg_returns(c, artifact)
            /\ supPc[c.sup] \in SupervisorPositions \ {"not_started"}
            /\ repPc \in {"sleep", "offline_names", "print"}
            /\ mainPc \in {"start_stations", "idle"}

\* The move of a station's first chunk has failed, the station is reported
\* online, and its supervisor has launched the next chunk.
C17_Witness ==
    \E c \in chunks, d \in chunks :
        /\ c.moved = "failed"
        /\ d.sup = c.sup /\ d.n = c.n + 1 /\ d.pc = "ffmpeg"
        /\ station_status[c.station]
        /\ repPc = "print" /\ c.station \in Range(repOnline)

UnfinishedOf(i) == { c \in ChunksOf(i) : c.pc # "done" }

\* C18: if every capture returns within RECORD_DURATION of its launch and
\* 2 * OVERLAP_START > RECORD_DURATION, then in every reachable state at most
\* two captures of one station are in flight.  (Without the bound on the
\* duration of a capture the number is not bounded: see TickUnbounded.)
C18_AtMostTwoInFlight ==
    2 * OVERLAP_START > RECORD_DURATION =>
        \A i \in Sups :
            /\ \A c \in InFlight(i) : clock <= c.launchedAt + RECORD_DURATION
            /\ Cardinality(UnfinishedOf(i)) <= 2

\* The third chunk of a station is launched while the second is in flight;
\* the first, launched 2 * OVERLAP_START earlier, has ended.
C18_Witness ==
    \E i \in Sups : \E c1 \in ChunksOf(i), c2 \in InFlight(i), c3 \in InFlight(i) :
        /\ c1.pc = "done"
        /\ c2.launchedAt = c1.launchedAt + OVERLAP_START
        /\ c3.launchedAt = c2.launchedAt + OVERLAP_START
        /\ clock = c3.launchedAt

\* The steps a capture takes: none, or the next one of its own thread.
CaptureSteps ==
    { <<"ffmpeg", "ffmpeg">>, <<"ffmpeg", "returned">>,
      <<"returned", "returned">>, <<"returned", "done">>, <<"done", "done">> }

\* C19: the window gates launches only.  Whatever the window, no step cancels
\* a capture: each capture is still there after the step, where it was or one
\* step further in its own thread, with the launch data it had; a capture
\* that has returned can write its outcome as soon as the lock is free, window
\* open or closed; and the status of a station changes only when one of its
\* captures completes and writes its outcome, so that after the last capture
\* of a window the status stays until a capture of the next window completes.
C19_Step ==
    /\ \A c \in chunks :
          /\ \E d \in chunks' :
                /\ d.sup = c.sup /\ d.n = c.n
                /\ d.launchedAt = c.launchedAt /\ d.filename = c.filename
                /\ <<c.pc, d.pc>> \in CaptureSteps
          /\ (c.pc = "returned" /\ status_lock = "free") =>
                ENABLED record_chunk_finish(c, TRUE)
    /\ \A name \in DOMAIN station_status \cap DOMAIN station_status' :
          station_status'[name] # station_status[name] =>
              \E c \in chunks, d \in chunks' :
                  /\ c.station = name /\ d.station = name /\ d.n = c.n
                  /\ c.pc = "returned" /\ d.pc = "done"
                  /\ station_status'[name] = (d.wrote = "online")

C19_WindowGatesLaunchesOnly == [][C19_Step]_vars

\* A capture launched in the last minutes of the window has returned with
\* data after the close and is about to write Online, while its supervisor
\* waits for the next window and the station is still shown offline.
C19_Witness ==
    \E c \in chunks :
        /\ c.gate.open /\ within_recording_window(c.launchedAt)
        /\ ~within_recording_window(clock)
        /\ clock < c.launchedAt + RECORD_DURATION
        /\ c.pc = "returned" /\ has_data(liveDir, c.filename)
        /\ supPc[c.sup] = "wait_sleep"
        /\ ~station_status[c.station]

\* C20: with START_HOUR = END_HOUR # 0 the window is closed at every hour:
\* every check finds it closed, a supervisor that has begun to wait stays in
\* wait_until_start, no chunk is ever launched and every station's status
\* stays offline, in the reports too.  With START_HOUR = END_HOUR = 0 the
\* window is open at every hour and no supervisor ever waits.
C20_DegenerateWindow ==
    /\ (START_HOUR = END_HOUR /\ START_HOUR # 0) =>
          /\ \A h \in Hours : ~within_recording_window(h * 3600)
          /\ chunks = {}
          /\ \A i \in Sups :
                /\ supPc[i] # "launch"
                /\ supGate[i].checked =>
                      /\ ~supGate[i].open
                      /\ supPc[i] = "wait_sleep"
                      /\ supWaited[i]
          /\ \A name \in DOMAIN station_status : ~station_status[name]
          /\ repOnline = << >>
    /\ (START_HOUR = END_HOUR /\ START_HOUR = 0) =>
          /\ \A h \in Hours : within_recording_window(h * 3600)
          /\ \A i \in Sups :
                /\ supPc[i] # "wait_sleep"
                /\ ~supWaited[i]
                /\ supGate[i].checked => supGate[i].open

\* With START_HOUR = END_HOUR = 5 a supervisor woken at 05:00:00 of the next
\* day finds the window closed again and goes on waiting; nothing was
\* launched and the report lists its station offline.
C20_Witness ==
    \E i \in Sups :
        /\ START_HOUR = 5 /\ END_HOUR = 5
        /\ supPc[i] = "wait_sleep"
        /\ supGate[i].at = SecondsPerDay + 5 * 3600
        /\ supWake[i] = 2 * SecondsPerDay + 5 * 3600
        /\ chunks = {}
        /\ repPc = "print" /\ stations[i] \in Range(repOffline)

=============================================================================
